---- MODULE Spec2Model ----
(***************************************************************************)
(* Model of check_instagram_links.py: the per-platform link classifiers    *)
(* (check_one and the check_* functions it dispatches to) and the sheet    *)
(* runner (run_sheet).                                                     *)
(*                                                                         *)
(* Strings are sequences of lexemes.  A URL is the sequence of its         *)
(* delimiters and the words between them, e.g.                             *)
(*   <<"https:", "/", "/", "www.", "facebook.com", "/", "watch", "/">>     *)
(* and a page body is the sequence of the phrases it shows.  Python's      *)
(* substring test `n in s` is a contiguous sub-sequence test; the needles  *)
(* of the program are written in the same lexemes.  Status cells of the    *)
(* sheet are sequences of single characters.                               *)
(***************************************************************************)
EXTENDS Integers, Sequences, FiniteSets, TLC

VARIABLES
    page,      \* check_one: the URL and what the primary browser page shows
    probe,     \* check_one: what the secondary engine shows (NoProbe if not run)
    result,    \* check_one: verdict and the path taken to it
    sheet,     \* the worksheet: row index -> cells
    today,     \* the day of datetime.now()
    skipDays,  \* run_sheet: SKIP_RECENT_DAYS
    pc,        \* run_sheet, per worker: "idle", "loop", "done"
    values,    \* run_sheet, per worker: ws.get_all_values() snapshot
    idx,       \* run_sheet, per worker: loop variable i
    updates,   \* run_sheet, per worker: pending updates
    runDay,    \* run_sheet, per worker: `today` of the run
    selected,  \* per worker: indices that passed the shard filter in this run
    calls,     \* per worker: indices passed to check_one in this run
    written,   \* per worker: indices sent to ws.batch_update in any run
    runs,      \* number of run_sheet calls so far
    log        \* per worker, of its last run: the rows passed to check_one,
               \* the rows skipped, the ws.batch_update calls, the return

checkVars == <<page, probe, result>>
sheetVars == <<sheet, today, skipDays, pc, values, idx, updates, runDay,
               selected, calls, written, runs, log>>
vars == <<page, probe, result, sheet, today, skipDays, pc, values, idx,
          updates, runDay, selected, calls, written, runs, log>>

(***************************************************************************)
(* Strings                                                                 *)
(***************************************************************************)

\* str.lower() on one lexeme or character
LowerTok(t) ==
    CASE t = "WATCH" -> "watch"
      [] t = "Reel" -> "reel"
      [] t = "V" -> "v"
      [] t = "VideoObject" -> "videoobject"
      [] t = "This Content Isn't Available Right Now"
             -> "this content isn't available right now"
      [] t = "Video Unavailable" -> "video unavailable"
      [] t = "Post Unavailable" -> "post unavailable"
      [] t = "R" -> "r"
      [] t = "E" -> "e"
      [] t = "M" -> "m"
      [] t = "O" -> "o"
      [] t = "D" -> "d"
      [] t = "A" -> "a"
      [] t = "U" -> "u"
      [] OTHER -> t

\* str.upper() on one character
UpperTok(t) ==
    CASE t = "r" -> "R"
      [] t = "a" -> "A"
      [] t = "u" -> "U"
      [] OTHER -> t

Lower(s) == [k \in 1..Len(s) |-> LowerTok(s[k])]

\* `needle in hay`
Contains(hay, needle) ==
    \E k \in 0..(Len(hay) - Len(needle)) :
        \A j \in 1..Len(needle) : hay[k + j] = needle[j]

StartsWith(s, prefix) ==
    /\ Len(s) >= Len(prefix)
    /\ \A j \in 1..Len(prefix) : s[j] = prefix[j]

\* index of the first element of s that is in `stops`, Len(s)+1 if none
FirstIn(s, stops) ==
    IF \E k \in 1..Len(s) : s[k] \in stops
    THEN CHOOSE k \in 1..Len(s) :
             /\ s[k] \in stops
             /\ \A j \in 1..(k - 1) : s[j] \notin stops
    ELSE Len(s) + 1

Before(s, stops) == SubSeq(s, 1, FirstIn(s, stops) - 1)
After(s, stops) == SubSeq(s, FirstIn(s, stops) + 1, Len(s))

\* s.split(sep): the pieces between occurrences of sep (empty pieces kept)
RECURSIVE Split(_, _)
Split(s, sep) ==
    IF \E k \in 1..Len(s) : s[k] = sep
    THEN <<Before(s, {sep})>> \o Split(After(s, {sep}), sep)
    ELSE <<s>>

\* [x for x in pieces if x]
NonEmpty(pieces) == SelectSeq(pieces, LAMBDA x : x /= <<>>)

\* s.rstrip(ch)
RECURSIVE RStrip(_, _)
RStrip(s, chars) ==
    IF s /= <<>> /\ s[Len(s)] \in chars
    THEN RStrip(SubSeq(s, 1, Len(s) - 1), chars)
    ELSE s

\* s.lstrip(ch)
RECURSIVE LStrip(_, _)
LStrip(s, chars) ==
    IF s /= <<>> /\ Head(s) \in chars THEN LStrip(Tail(s), chars) ELSE s

Whitespace == {" "}

\* s.strip()
Strip(s) == LStrip(RStrip(s, Whitespace), Whitespace)

DigitWords == {"123", "456"}

\* s.isdigit(): non-empty and digits only
IsDigit(s) == s /= <<>> /\ \A k \in 1..Len(s) : s[k] \in DigitWords

Letters == {"r", "e", "m", "o", "v", "d", "a", "c", "t", "i", "u", "n", "k", "w",
            "R", "E", "M", "O", "V", "D", "A", "U"}

\* s.title(): a letter that follows a non-letter is upper-cased, any other
\* letter lower-cased
Title(s) ==
    [k \in 1..Len(s) |->
        IF k = 1 \/ s[k - 1] \notin Letters THEN UpperTok(s[k]) ELSE LowerTok(s[k])]

(***************************************************************************)
(* urllib.parse                                                            *)
(***************************************************************************)

Schemes == {"https:", "http:"}

\* urlparse(u): scheme, netloc, path, query, fragment
urlparse(u) ==
    LET noFrag == Before(u, {"#"})
        rest == IF noFrag /= <<>> /\ Head(noFrag) \in Schemes
                THEN Tail(noFrag) ELSE noFrag
        hasNet == StartsWith(rest, <<"/", "/">>)
        afterSl == IF hasNet THEN SubSeq(rest, 3, Len(rest)) ELSE rest
        netloc == IF hasNet THEN Before(afterSl, {"/", "?"}) ELSE <<>>
        tail == IF hasNet
                THEN SubSeq(afterSl, Len(netloc) + 1, Len(afterSl))
                ELSE rest
    IN [netloc |-> netloc,
        path |-> Before(tail, {"?"}),
        query |-> After(tail, {"?"})]

\* keys of parse_qs(q): the names of the name=value fields of q, separated
\* by "&", whose value is not blank (keep_blank_values is off)
parse_qs_keys(q) ==
    LET fields == Split(q, "&")
    IN {Before(fields[k], {"="}) :
          k \in {j \in 1..Len(fields) :
                   /\ \E m \in 1..Len(fields[j]) : fields[j][m] = "="
                   /\ After(fields[j], {"="}) /= <<>>}}

(***************************************************************************)
(* Program constants                                                       *)
(***************************************************************************)

SKIP_STATUS_VALUES == {<<"r", "e", "m", "o", "v", "e", "d">>}

INST_REMOVAL_PHRASES ==
    {<<"sorry, this page isn't available">>,
     <<"the link you followed may be broken">>,
     <<"page not found">>}

YT_REMOVAL == {<<"video unavailable">>, <<"this video isn't available anymore">>}

TT_REMOVAL == {<<"video currently unavailable">>}

FB_REMOVAL ==
    {<<"this content isn't available right now">>,
     <<"this content isn't available anymore">>,
     <<"the link you followed may be broken">>,
     <<"may have been removed">>,
     <<"we're sorry, this content isn't available">>,
     <<"this video isn't available anymore">>}

THREADS_UNAVAILABLE_BADGE == <<"post unavailable">>

LOGIN_CUES ==
    {<<"log in">>,
     <<"sign up">>,
     <<"/", "accounts", "/", "login">>,
     <<"login.facebook">>,
     <<"log in", " to facebook">>}

(***************************************************************************)
(* Helpers                                                                 *)
(***************************************************************************)

\* page_text(page): the lower-cased content
page_text(pg) == Lower(pg.body)

host_platform(u) ==
    LET host == Lower(urlparse(u).netloc)
    IN IF Contains(host, <<"instagram.com">>) THEN "instagram"
       ELSE IF Contains(host, <<"youtube.com">>) \/ Contains(host, <<"youtu.be">>)
            THEN "youtube"
       ELSE IF Contains(host, <<"tiktok.com">>) THEN "tiktok"
       ELSE IF Contains(host, <<"facebook.com">>) \/ Contains(host, <<"fb.watch">>)
            THEN "facebook"
       ELSE IF Contains(host, <<"threads.net">>) \/ Contains(host, <<"threads.com">>)
            THEN "threads"
       ELSE "unknown"

contains_any(haystack, needles) == \E n \in needles : Contains(haystack, n)

looks_like_login(body, url_now) ==
    \/ Contains(url_now, <<"/", "accounts", "/", "login">>)
    \/ contains_any(body, LOGIN_CUES)

\* _attr(page, sel, attr) for a selector whose element is el: the stripped
\* attribute, "" when the query raises or finds nothing
_attr(el, raises) ==
    IF raises \/ ~el.found THEN <<>> ELSE Strip(el.attr)

\* the scan of one JSON-LD script: "video" when an item is a VideoObject,
\* "raise" when json.loads raises, "next" when the loop goes on
ScanScript(sc) ==
    IF sc.blank THEN "next"
    ELSE IF ~sc.parses THEN "raise"
    ELSE IF \E k \in 1..Len(sc.types) : LowerTok(sc.types[k]) = "videoobject"
         THEN "video"
    ELSE "next"

RECURSIVE ScanScripts(_)
ScanScripts(scripts) ==
    IF scripts = <<>> THEN FALSE
    ELSE LET r == ScanScript(Head(scripts))
         IN IF r = "video" THEN TRUE
            ELSE IF r = "raise" THEN FALSE
            ELSE ScanScripts(Tail(scripts))

_jsonld_video_present(scripts, raises) ==
    IF raises THEN FALSE ELSE ScanScripts(scripts)

_fb_watch_missing_v(u) ==
    LET p == urlparse(Lower(u))
    IN /\ RStrip(p.path, {"/"}) = <<"/", "watch">>
       /\ <<"v">> \notin parse_qs_keys(p.query)

_fb_reel_missing_id(u) ==
    LET p == urlparse(Lower(u))
        parts == NonEmpty(Split(p.path, "/"))
    IN IF RStrip(p.path, {"/"}) = <<"/", "reel">> THEN TRUE
       ELSE IF Len(parts) >= 2 /\ parts[1] = <<"reel">> THEN ~IsDigit(parts[2])
       ELSE FALSE

_canonical_says_no_media(pg) ==
    LET href == Lower(_attr(pg.canon, "canon" \in pg.fails))
        parts == NonEmpty(Split(urlparse(href).path, "/"))
    IN IF href = <<>> THEN FALSE
       ELSE IF Contains(href, <<"/", "watch">>)
            THEN ~Contains(href, <<"?", "v", "=">>)
       ELSE IF Contains(href, <<"/", "reel", "/">>)
            THEN ~(Len(parts) >= 2 /\ parts[1] = <<"reel">> /\ IsDigit(parts[2]))
       ELSE FALSE

\* fb_probe(engine, url) on the secondary page sp: the returned tuple
fb_probe(sp) ==
    [final_url |-> Lower(sp.finalUrl),
     body |-> Lower(sp.body),
     og_video |-> _attr(sp.og, FALSE) /= <<>>,
     jsonld_video |-> ScanScripts(sp.jsonld),
     canonical |-> Lower(_attr(sp.canon, FALSE))]

StatusOk(code) == code /= 0 /\ 200 <= code /\ code < 400

(***************************************************************************)
(* Per-platform checkers.  pg is what the primary page shows for the URL,  *)
(* sp what the secondary engine shows.  The result carries the verdict,    *)
(* the signal extractors evaluated on the way and the engine of the        *)
(* secondary probe ("none" when fb_probe is not called).                   *)
(***************************************************************************)

R(v, ev, eng) == [verdict |-> v, evaluated |-> ev, engine |-> eng]

\* faulty variant: the failure of the second page.goto is not caught as "no page"
ig_goto_failed_noretry(pg) == pg.nav = "error"

\* lines 292-300 of check_instagram: both page.goto attempts are over and
\* there is no page (a PWTimeout is retried with "networkidle")
ig_goto_failed(pg) ==
    pg.nav = "error" \/ (pg.nav = "timeout" /\ pg.retry /= "ok")

check_instagram(pg) ==
    LET body == page_text(pg)
        cur_url == pg.finalUrl
    IN IF ig_goto_failed(pg)
       THEN R("unknown", {}, "none")
       ELSE IF contains_any(body, INST_REMOVAL_PHRASES)
            THEN R("removed", {"removal_phrase"}, "none")
       ELSE IF looks_like_login(body, cur_url)
            THEN R("active", {"removal_phrase", "login_wall"}, "none")
       ELSE IF "marker1" \in pg.fails
            THEN R("unknown", {"removal_phrase", "login_wall", "marker"}, "none")
       ELSE IF pg.m1
            THEN R("active", {"removal_phrase", "login_wall", "marker"}, "none")
       ELSE IF "marker2" \in pg.fails
            THEN R("unknown", {"removal_phrase", "login_wall", "marker"}, "none")
       ELSE IF pg.m2
            THEN R("active", {"removal_phrase", "login_wall", "marker"}, "none")
       ELSE R("unknown", {"removal_phrase", "login_wall", "marker"}, "none")

check_youtube(pg) ==
    IF pg.nav /= "ok" THEN R("unknown", {}, "none")
    ELSE IF contains_any(page_text(pg), YT_REMOVAL)
         THEN R("removed", {"removal_phrase"}, "none")
    ELSE IF StatusOk(pg.status) THEN R("active", {"removal_phrase"}, "none")
    ELSE R("unknown", {"removal_phrase"}, "none")

\* faulty variant: an HTTP error status is reported as a removal
check_tiktok_status_removed(pg) ==
    IF pg.nav /= "ok" THEN R("unknown", {}, "none")
    ELSE IF contains_any(page_text(pg), TT_REMOVAL)
         THEN R("removed", {"removal_phrase"}, "none")
    ELSE IF StatusOk(pg.status) THEN R("active", {"removal_phrase"}, "none")
    ELSE R("removed", {"removal_phrase"}, "none")

check_tiktok(pg) ==
    IF pg.nav /= "ok" THEN R("unknown", {}, "none")
    ELSE IF contains_any(page_text(pg), TT_REMOVAL)
         THEN R("removed", {"removal_phrase"}, "none")
    ELSE IF StatusOk(pg.status) THEN R("active", {"removal_phrase"}, "none")
    ELSE R("unknown", {"removal_phrase"}, "none")

\* lines 380-386 of check_facebook: the secondary probe says removed
ProbeSaysRemoved(sp) ==
    LET pr == fb_probe(sp)
    IN /\ sp.nav = "ok"
       /\ contains_any(pr.body, FB_REMOVAL)
       /\ ~pr.og_video
       /\ ~pr.jsonld_video
       /\ \/ /\ Contains(pr.canonical, <<"/", "watch">>)
             /\ ~Contains(pr.canonical, <<"?", "v", "=">>)
          \/ _fb_reel_missing_id(pr.canonical)
          \/ _fb_watch_missing_v(pr.final_url)

\* line 361 of check_facebook
fb_og_video(pg) == _attr(pg.og, "og" \in pg.fails) /= <<>>

\* faulty variant: the Open Graph video tag no longer suppresses the phrase rule
fb_phrase_rule_ignores_og(pg, og_video, jsonld_has_video) ==
    /\ contains_any(page_text(pg), FB_REMOVAL)
    /\ ~jsonld_has_video
    /\ _canonical_says_no_media(pg)

\* lines 364-366 of check_facebook: removal phrase, no video, canonical
fb_phrase_rule(pg, og_video, jsonld_has_video) ==
    /\ contains_any(page_text(pg), FB_REMOVAL)
    /\ ~og_video /\ ~jsonld_has_video
    /\ _canonical_says_no_media(pg)

\* faulty variant: only the reel form of the final URL is looked at
fb_url_rule_reel_only(final_url) == _fb_reel_missing_id(final_url)

\* line 368 of check_facebook: the final URL lost its id
fb_url_rule(final_url) ==
    _fb_watch_missing_v(final_url) \/ _fb_reel_missing_id(final_url)

check_facebook(pg, sp) ==
    LET final_url == Lower(pg.finalUrl)
        body == page_text(pg)
        og_video == fb_og_video(pg)
        jsonld_has_video == _jsonld_video_present(pg.jsonld, "jsonld" \in pg.fails)
        looks_login == looks_like_login(body, final_url)
        path == Lower(urlparse(pg.url).path)
        engine == IF ~looks_login THEN "none"
                  ELSE IF StartsWith(path, <<"/", "watch">>) THEN "chromium"
                  ELSE "webkit"
        ev1 == {"removal_phrase", "og_video", "jsonld_video"}
        ev2 == ev1 \cup {"url_missing_id"}
        ev3 == ev2 \cup {"canonical"}
        ev4 == ev3 \cup {"login_wall"}
    IN IF pg.nav /= "ok" THEN R("unknown", {}, "none")
       ELSE IF fb_phrase_rule(pg, og_video, jsonld_has_video)
            THEN R("removed", ev1 \cup {"canonical"}, "none")
       ELSE IF fb_url_rule(final_url)
            THEN R("removed", ev2, "none")
       ELSE IF _canonical_says_no_media(pg) /\ ~og_video /\ ~jsonld_has_video
            THEN R("removed", ev3, "none")
       ELSE IF looks_login /\ ProbeSaysRemoved(sp)
            THEN R("removed", ev4, engine)
       ELSE IF \/ og_video \/ jsonld_has_video
               \/ Contains(final_url, <<"?", "v", "=">>)
               \/ Contains(final_url, <<"/", "reel", "/">>)
            THEN R("active", ev4, engine)
       ELSE IF StatusOk(pg.status) THEN R("active", ev4, engine)
       ELSE R("unknown", ev4, engine)

check_threads(pg) ==
    IF pg.nav /= "ok" THEN R("unknown", {}, "none")
    ELSE IF Contains(page_text(pg), THREADS_UNAVAILABLE_BADGE)
         THEN R("removed", {"removal_phrase"}, "none")
    ELSE IF StatusOk(pg.status) THEN R("active", {"removal_phrase"}, "none")
    ELSE R("unknown", {"removal_phrase"}, "none")

\* the last lines of check_one: an unmatched host
check_generic(pg) ==
    IF pg.nav /= "ok" THEN R("unknown", {}, "none")
    ELSE IF StatusOk(pg.status) THEN R("active", {}, "none")
    ELSE R("unknown", {}, "none")

check_one(pg, sp) ==
    LET p == host_platform(pg.url)
    IN IF p = "instagram" THEN check_instagram(pg)
       ELSE IF p = "youtube" THEN check_youtube(pg)
       ELSE IF p = "tiktok" THEN check_tiktok(pg)
       ELSE IF p = "facebook" THEN check_facebook(pg, sp)
       ELSE IF p = "threads" THEN check_threads(pg)
       ELSE check_generic(pg)

(***************************************************************************)
(* Inputs of check_one: URLs and what the browser shows for them           *)
(***************************************************************************)

Https == <<"https:", "/", "/">>
FbHost == Https \o <<"www.", "facebook.com">>

U_IG == Https \o <<"www.", "instagram.com", "/", "p", "/", "abc", "/">>
U_IG_LOGIN == Https \o <<"www.", "instagram.com", "/", "accounts", "/", "login", "/">>
U_YT == Https \o <<"youtu.be", "/", "abc">>
U_TT == Https \o <<"www.", "tiktok.com", "/", "@u", "/", "video", "/", "123">>
U_FB_WATCH == FbHost \o <<"/", "watch", "/", "?", "v", "=", "123">>
U_FB_WATCH_NO_V == FbHost \o <<"/", "watch", "/">>
U_FB_WATCH_BARE == FbHost \o <<"/", "WATCH">>
U_FB_REEL_BAD == FbHost \o <<"/", "Reel", "/", "abc">>
U_FB_POST == FbHost \o <<"/", "user", "/", "videos", "/", "123">>
U_TH == Https \o <<"www.", "threads.com", "/", "@u", "/", "post", "/", "abc">>
U_TH_INVALID == Https \o <<"www.", "threads.com", "/", "?", "error", "=", "invalid_post">>
U_OTHER == Https \o <<"example.org", "/", "abc">>

InputUrls == {U_IG, U_YT, U_TT, U_FB_WATCH, U_FB_POST, U_TH, U_OTHER}

\* a DOM element found by query_selector (or none) and the attribute read
NoEl == [found |-> FALSE, attr |-> <<>>]
El(a) == [found |-> TRUE, attr |-> a]

\* JSON-LD scripts: blank text, malformed JSON, a VideoObject
ScBlank == [blank |-> TRUE, parses |-> TRUE, types |-> <<>>]
ScBad == [blank |-> FALSE, parses |-> FALSE, types |-> <<>>]
ScVideo == [blank |-> FALSE, parses |-> TRUE, types |-> <<"VideoObject">>]

Pg(u, n, r, st, fu, b, og, jd, can, fl, m1, m2) ==
    [url |-> u, nav |-> n, retry |-> r, status |-> st, finalUrl |-> fu,
     body |-> b, og |-> og, jsonld |-> jd, canon |-> can, fails |-> fl,
     m1 |-> m1, m2 |-> m2]

\* a navigation that raised: there is no page to look at
Failed(u, n) == Pg(u, n, "error", 0, <<>>, <<>>, NoEl, <<>>, NoEl, {}, FALSE, FALSE)

Statuses == {0, 200, 404}

Html == <<"<html>">>

IgPages(u) ==
    {Failed(u, "timeout"), Failed(u, "error")} \cup
    {Pg(u, n, "ok", 200, fu, b, NoEl, <<>>, NoEl, fl, m1, m2) :
        n \in {"ok", "timeout"},
        fu \in {U_IG, U_IG_LOGIN},
        b \in {<<>>, Html, Html \o <<"sorry, this page isn't available">>,
               Html \o <<"log in">>},
        fl \in {{}, {"marker1"}, {"marker2"}},
        m1 \in BOOLEAN, m2 \in BOOLEAN}

VideoPages(u) ==
    {Failed(u, "timeout"), Failed(u, "error")} \cup
    {Pg(u, "ok", "ok", st, u, b, NoEl, <<>>, NoEl, {}, FALSE, FALSE) :
        st \in Statuses,
        b \in {<<>>, Html, Html \o <<"Video Unavailable">>,
               Html \o <<"video currently unavailable">>}}

ThreadsPages(u) ==
    {Failed(u, "timeout"), Failed(u, "error")} \cup
    {Pg(u, "ok", "ok", st, fu, b, NoEl, <<>>, NoEl, {}, FALSE, FALSE) :
        st \in Statuses,
        fu \in {U_TH, U_TH_INVALID},
        b \in {<<>>, Html, Html \o <<"Post Unavailable">>}}

GenericPages(u) ==
    {Failed(u, "timeout"), Failed(u, "error")} \cup
    {Pg(u, "ok", "ok", st, u, Html, NoEl, <<>>, NoEl, {}, FALSE, FALSE) :
        st \in Statuses}

FbBodies ==
    {Html,
     Html \o <<"This Content Isn't Available Right Now">>,
     Html \o <<"log in", " to facebook">>,
     Html \o <<"may have been removed", "log in">>}

FbCanonicals ==
    {NoEl, El(FbHost \o <<"/", "watch", "/">>), El(U_FB_WATCH)}

\* the DOM queries that can raise on a page: those that have something to find
FbFails(og, jd, can) ==
    {{}} \cup {{"og"} : x \in {1} \cap (IF og.attr /= <<>> THEN {1} ELSE {})}
         \cup {{"jsonld"} : x \in {1} \cap (IF jd /= <<>> THEN {1} ELSE {})}
         \cup {{"canon"} : x \in {1} \cap (IF can.found THEN {1} ELSE {})}

FbPages(u) ==
    {Failed(u, "timeout"), Failed(u, "error")} \cup
    UNION {{Pg(u, "ok", "ok", st, fu, b, og, jd, can, fl, FALSE, FALSE) :
              st \in Statuses,
              fu \in {U_FB_WATCH, U_FB_WATCH_NO_V, U_FB_WATCH_BARE,
                      U_FB_REEL_BAD, U_FB_POST},
              b \in FbBodies,
              fl \in FbFails(og, jd, can)} :
           og \in {NoEl, El(<<>>), El(<<"video.mp4">>)},
           jd \in {<<>>, <<ScBlank, ScVideo>>, <<ScBad, ScVideo>>},
           can \in FbCanonicals}

\* what the secondary engine shows
Sp(n, fu, b, og, jd, can) ==
    [nav |-> n, finalUrl |-> fu, body |-> b, og |-> og, jsonld |-> jd, canon |-> can]

NoProbe == Sp("none", <<>>, <<>>, NoEl, <<>>, NoEl)

SecondaryPages ==
    {Sp("error", <<>>, <<>>, NoEl, <<>>, NoEl)} \cup
    {Sp("ok", fu, b, og, jd, can) :
        fu \in {U_FB_WATCH, U_FB_WATCH_NO_V},
        b \in {Html \o <<"log in">>, Html \o <<"This Content Isn't Available Right Now">>},
        og \in {NoEl, El(<<"video.mp4">>)},
        jd \in {<<>>, <<ScVideo>>},
        can \in {NoEl, El(FbHost \o <<"/", "reel", "/">>)}}

PagesFor(u) ==
    LET p == host_platform(u)
    IN IF p = "instagram" THEN IgPages(u)
       ELSE IF p \in {"youtube", "tiktok"} THEN VideoPages(u)
       ELSE IF p = "facebook" THEN FbPages(u)
       ELSE IF p = "threads" THEN ThreadsPages(u)
       ELSE GenericPages(u)

\* the secondary pages check_one can see for pg: fb_probe runs only on the
\* paths of check_facebook that reach it
ProbesFor(pg) ==
    IF check_one(pg, NoProbe).engine = "none" THEN {NoProbe} ELSE SecondaryPages

(***************************************************************************)
(* check_one as a state machine: one classification per step               *)
(***************************************************************************)

NoPage == Pg(<<>>, "none", "none", 0, <<>>, <<>>, NoEl, <<>>, NoEl, {}, FALSE, FALSE)

\* check_one is called once on a fresh page
Classify(platform) ==
    /\ result.verdict = "none"
    /\ \E u \in InputUrls :
         /\ host_platform(u) = platform
         /\ \E pg \in PagesFor(u) :
              \E sp \in ProbesFor(pg) :
                 /\ page' = pg
                 /\ probe' = sp
                 /\ result' = check_one(pg, sp)
    /\ UNCHANGED sheetVars

CheckInstagram == Classify("instagram")
CheckYoutube == Classify("youtube")
CheckTiktok == Classify("tiktok")
CheckFacebook == Classify("facebook")
CheckThreads == Classify("threads")
CheckGeneric == Classify("unknown")

InitCheck ==
    /\ page = NoPage
    /\ probe = NoProbe
    /\ result = R("none", {}, "none")
    /\ sheet = <<>> /\ today = 1 /\ skipDays = 0
    /\ pc = <<>> /\ values = <<>> /\ idx = <<>> /\ updates = <<>>
    /\ runDay = <<>> /\ selected = <<>> /\ calls = <<>> /\ written = <<>>
    /\ runs = 0 /\ log = <<>>

NextCheck ==
    \/ CheckInstagram
    \/ CheckYoutube
    \/ CheckTiktok
    \/ CheckFacebook
    \/ CheckThreads
    \/ CheckGeneric

SpecCheck == InitCheck /\ [][NextCheck]_vars

(***************************************************************************)
(* Time spent by check_one, in milliseconds                                *)
(***************************************************************************)

NAV_TIMEOUT_MS == 15000
NETWORK_IDLE_MS == 7000
SETTLE_SLEEP_S == 2

\* page.goto(url, timeout=NAV_TIMEOUT_MS): a timeout takes the whole
\* timeout, any other outcome comes after `lat` milliseconds
GotoTime(n, lat) == IF n = "timeout" THEN NAV_TIMEOUT_MS ELSE lat

\* wait_for_load_state("networkidle", timeout=NETWORK_IDLE_MS) on a page
\* that never goes idle, then time.sleep(SETTLE_SLEEP_S)
SettleTime == NETWORK_IDLE_MS + SETTLE_SLEEP_S * 1000

\* fb_probe: goto, then the waits unless goto raised
ProbeTime(sp, lat) ==
    IF sp.nav = "none" THEN 0
    ELSE IF sp.nav = "ok" THEN GotoTime("ok", lat) + SettleTime
    ELSE GotoTime(sp.nav, lat)

\* the wall-clock time of check_one(page, url)
Elapsed(pg, sp, lat) ==
    LET p == host_platform(pg.url)
        first == GotoTime(pg.nav, lat)
    IN IF p = "instagram"
       THEN first
            + (IF pg.nav = "timeout" THEN GotoTime(pg.retry, lat) ELSE 0)
            + (IF ig_goto_failed(pg) THEN 0 ELSE SettleTime)
       ELSE IF p \in {"facebook", "threads"}
       THEN first
            + (IF pg.nav = "ok" THEN SettleTime ELSE 0)
            + ProbeTime(sp, lat)
       ELSE first

\* the latencies of page.goto looked at: a slow site that answers just
\* within the timeout
Latencies == {NAV_TIMEOUT_MS - 1000}

(***************************************************************************)
(* The sheet                                                               *)
(***************************************************************************)

START_ROW == 2
FLUSH_EVERY == 250

NumRows == 5       \* rows of the worksheet, the header row included
TotalShards == 2   \* TOTAL_SHARDS; one worker per SHARD_INDEX
MaxDay == 2        \* days the runs spread over
MaxRuns == 2       \* calls of run_sheet, all workers together

Workers == 0..(TotalShards - 1)

\* the verdict of check_one as the characters of a Python string
Chars(v) ==
    CASE v = "removed" -> <<"r", "e", "m", "o", "v", "e", "d">>
      [] v = "active" -> <<"a", "c", "t", "i", "v", "e">>
      [] v = "unknown" -> <<"u", "n", "k", "n", "o", "w", "n">>

\* datetime.strftime("%m/%d/%Y") of day d; day 1 is 10/31/2026
Months == <<"10", "11", "11", "11", "11">>
DaysOfMonth == <<"31", "01", "02", "03", "04">>
strftime(d) == <<Months[d], "/", DaysOfMonth[d], "/", "2026">>

\* parse_mmddyyyy(s): the day, 0 (None) when strptime raises
parse_mmddyyyy(s) ==
    LET t == Strip(s)
    IN IF \E d \in 1..Len(Months) : strftime(d) = t
       THEN CHOOSE d \in 1..Len(Months) : strftime(d) = t
       ELSE 0

\* recent_enough(last_str, skip_days) when datetime.now() is on day `now`
recent_enough(last_str, skip_days, now) ==
    LET d == parse_mmddyyyy(last_str)
    IN IF skip_days <= 0 THEN FALSE
       ELSE IF d = 0 THEN FALSE
       ELSE now - d < skip_days

normalize_url(u) == Strip(u)

Row(u, st, rm, ck) == [url |-> u, status |-> st, removal |-> rm, checked |-> ck]

HeaderRow == Row(<<"U", "R", "L">>, <<"S", "t", "a", "t", "u", "s">>, <<>>, <<>>)

\* rows a worksheet starts with: a new link, a link checked on day 1, a
\* link that was found removed on day 1, a blank row
InitialRows ==
    <<Row(<<" ">> \o U_YT \o <<" ">>, <<>>, <<>>, <<>>),
      Row(U_TH, <<"A", "c", "t", "i", "v", "e">>, <<>>, strftime(1)),
      Row(U_IG, <<" ", "R", "E", "M", "O", "V", "E", "D">>, strftime(1), strftime(1)),
      Row(<<>>, <<>>, <<>>, <<>>)>>

\* the worksheet at the start: the header, then InitialRows over and over
InitialSheet ==
    [r \in 1..NumRows |->
        IF r = 1 THEN HeaderRow
        ELSE InitialRows[((r - 2) % Len(InitialRows)) + 1]]

\* the pages the sites serve while the sheet is run: the TikTok links of
\* the long worksheet are all live, the other sites serve any of their pages
ServedPages(u) ==
    IF u = U_TT
    THEN {Pg(u, "ok", "ok", 200, u, Html, NoEl, <<>>, NoEl, {}, FALSE, FALSE)}
    ELSE PagesFor(u)

\* what check_one can return for a URL, and the time it takes
Outcomes ==
    [u \in {U_YT, U_IG, U_TH, U_TT} |->
        {[verdict |-> check_one(pg, sp).verdict, elapsed |-> Elapsed(pg, sp, lat)] :
            pg \in ServedPages(u), sp \in {NoProbe}, lat \in Latencies}]

\* ws.batch_update(updates): each update overwrites the status, removal
\* date and last-checked cells of its row
RECURSIVE batch_update(_, _)
batch_update(sh, ups) ==
    IF ups = <<>> THEN sh
    ELSE LET u == Head(ups)
         IN batch_update(
              [sh EXCEPT ![u.row].status = u.values[1],
                         ![u.row].removal = u.values[2],
                         ![u.row].checked = u.values[3]],
              Tail(ups))

UpdateRows(ups) == {ups[k].row - 1 : k \in 1..Len(ups)}

\* the row numbers of the updates of one ws.batch_update call, in order
BatchRows(ups) == [k \in 1..Len(ups) |-> ups[k].row]

\* nothing logged: the run has not got to its loop
NoLog == [called |-> <<>>, skipped |-> {}, batches |-> <<>>, returned |-> FALSE]

Init ==
    /\ page = NoPage /\ probe = NoProbe /\ result = R("none", {}, "none")
    /\ sheet = InitialSheet
    /\ today = 1
    /\ skipDays \in {0, 1}
    /\ pc = [w \in Workers |-> "idle"]
    /\ values = [w \in Workers |-> <<>>]
    /\ idx = [w \in Workers |-> 0]
    /\ updates = [w \in Workers |-> <<>>]
    /\ runDay = [w \in Workers |-> 0]
    /\ selected = [w \in Workers |-> {}]
    /\ calls = [w \in Workers |-> {}]
    /\ written = [w \in Workers |-> {}]
    /\ runs = 0
    /\ log = [w \in Workers |-> NoLog]

\* run_sheet up to the loop, called on the day of the last call or on the
\* day after: read the sheet, fix `today`
StartRun(w) ==
    /\ pc[w] = "idle"
    /\ runs < MaxRuns
    /\ runs' = runs + 1
    /\ \E d \in {today, today + 1} \cap 1..MaxDay :
         /\ today' = d
         /\ runDay' = [runDay EXCEPT ![w] = d]
    /\ pc' = [pc EXCEPT ![w] = "loop"]
    /\ values' = [values EXCEPT ![w] = sheet]
    /\ idx' = [idx EXCEPT ![w] = START_ROW - 1]
    /\ updates' = [updates EXCEPT ![w] = <<>>]
    /\ selected' = [selected EXCEPT ![w] = {}]
    /\ calls' = [calls EXCEPT ![w] = {}]
    /\ log' = [log EXCEPT ![w] = NoLog]
    /\ UNCHANGED <<sheet, skipDays, written>>
    /\ UNCHANGED checkVars

\* faulty variant: the shard is taken from the 1-based row number
InShardByRowNumber(i, w) == ((i + 1) % TotalShards) = w

\* the shard filter of the loop
InShard(i, w) == (i % TotalShards) = w

\* faulty variant: the status cell is compared as it stands in the sheet
SkippedCaseSensitive(row, now) ==
    \/ normalize_url(row.url) = <<>>
    \/ Strip(row.status) \in SKIP_STATUS_VALUES
    \/ skipDays > 0 /\ recent_enough(Strip(row.checked), skipDays, now)

\* the skip policy of the loop on a row of the snapshot
Skipped(row, now) ==
    \/ normalize_url(row.url) = <<>>
    \/ Lower(Strip(row.status)) \in SKIP_STATUS_VALUES
    \/ skipDays > 0 /\ recent_enough(Strip(row.checked), skipDays, now)

\* faulty variant: the removal date is set for every verdict but "unknown"
UpdateValuesDatesActive(verdict, day) ==
    <<Title(Chars(verdict)),
      IF verdict /= "unknown" THEN strftime(day) ELSE <<>>,
      strftime(day)>>

\* [[result.title(), removal_date, last_checked]] for a run whose `today`
\* is `day`
UpdateValues(verdict, day) ==
    <<Title(Chars(verdict)),
      IF verdict = "removed" THEN strftime(day) ELSE <<>>,
      strftime(day)>>

\* the update appended for row_idx after check_one returned outcome o; the
\* fields `verdict`, `elapsed` and `day` are not sent to the sheet: they
\* keep what check_one returned, the time it took and the run's `today`
MakeUpdate(row_idx, o, day) ==
    [row |-> row_idx,
     values |-> UpdateValues(o.verdict, day),
     verdict |-> o.verdict,
     elapsed |-> o.elapsed,
     day |-> day]

\* the first index from i on that passes the shard filter of worker w,
\* n when there is none below n
NextInShard(i, w, n) ==
    IF \E j \in i..(n - 1) : InShard(j, w)
    THEN CHOOSE j \in i..(n - 1) :
             InShard(j, w) /\ \A k \in i..(j - 1) : ~InShard(k, w)
    ELSE n

\* faulty variant: the buffer is sent once it is longer than FLUSH_EVERY
FlushDueLate(n) == n > FLUSH_EVERY

\* len(updates) >= FLUSH_EVERY, the test made after each append
FlushDue(n) == n >= FLUSH_EVERY

\* the loop of run_sheet from i = idx[w] on: the iterations that the shard
\* filter ends at once, and the first iteration that gets past it
LoopStep(w) ==
    /\ pc[w] = "loop"
    /\ idx[w] < Len(values[w])
    /\ LET i == NextInShard(idx[w], w, Len(values[w]))
           row == values[w][i + 1]
       IN /\ idx' = [idx EXCEPT ![w] = IF i < Len(values[w]) THEN i + 1 ELSE i]
          /\ IF i >= Len(values[w])
             THEN UNCHANGED <<sheet, updates, selected, calls, written, log>>
             ELSE /\ selected' = [selected EXCEPT ![w] = @ \cup {i}]
                  /\ IF Skipped(row, today)
                     THEN /\ log' = [log EXCEPT ![w].skipped = @ \cup {i}]
                          /\ UNCHANGED <<sheet, updates, calls, written>>
                     ELSE \E o \in Outcomes[normalize_url(row.url)] :
                            LET up == MakeUpdate(i + 1, o, runDay[w])
                                ups == Append(updates[w], up)
                            IN /\ calls' = [calls EXCEPT ![w] = @ \cup {i}]
                               /\ IF FlushDue(Len(ups))
                                  THEN /\ sheet' = batch_update(sheet, ups)
                                       /\ updates' = [updates EXCEPT ![w] = <<>>]
                                       /\ written' = [written EXCEPT
                                                        ![w] = @ \cup UpdateRows(ups)]
                                       /\ log' = [log EXCEPT
                                             ![w].called = Append(@, i),
                                             ![w].batches = Append(@, BatchRows(ups))]
                                  ELSE /\ updates' = [updates EXCEPT ![w] = ups]
                                       /\ log' = [log EXCEPT
                                             ![w].called = Append(@, i)]
                                       /\ UNCHANGED <<sheet, written>>
    /\ UNCHANGED <<today, skipDays, pc, values, runDay, runs>>
    /\ UNCHANGED checkVars

\* the loop is over: the final flush(), which calls ws.batch_update only
\* when the buffer is not empty, and run_sheet returns; its locals are gone
Finish(w) ==
    /\ pc[w] = "loop"
    /\ idx[w] >= Len(values[w])
    /\ sheet' = batch_update(sheet, updates[w])
    /\ written' = [written EXCEPT ![w] = @ \cup UpdateRows(updates[w])]
    /\ log' = [log EXCEPT
          ![w].batches = IF updates[w] /= <<>>
                         THEN Append(@, BatchRows(updates[w]))
                         ELSE @,
          ![w].returned = TRUE]
    /\ updates' = [updates EXCEPT ![w] = <<>>]
    /\ pc' = [pc EXCEPT ![w] = "idle"]
    /\ values' = [values EXCEPT ![w] = <<>>]
    /\ idx' = [idx EXCEPT ![w] = 0]
    /\ selected' = [selected EXCEPT ![w] = {}]
    /\ calls' = [calls EXCEPT ![w] = {}]
    /\ runDay' = [runDay EXCEPT ![w] = 0]
    /\ UNCHANGED <<today, skipDays, runs>>
    /\ UNCHANGED checkVars

Next ==
    \/ \E w \in Workers : StartRun(w)
    \/ \E w \in Workers : LoopStep(w)
    \/ \E w \in Workers : Finish(w)

Spec == Init /\ [][Next]_vars

(***************************************************************************)
(* A long worksheet, run once: enough rows for the buffer to fill          *)
(***************************************************************************)

\* rows of one shard in the long worksheets: with the rows the loop skips,
\* the first gives a shard FLUSH_EVERY or fewer rows to check, the second
\* more than FLUSH_EVERY
LongShardRows == {FLUSH_EVERY + 11, FLUSH_EVERY + 25}

\* the row at 0-based position k of its shard: mostly new TikTok links, and
\* at regular places a link found removed on day 1, a blank row and a link
\* checked on day 1
LongRow(k) ==
    LET c == k % (FLUSH_EVERY \div 5)
    IN IF c = 7
       THEN Row(U_TT, <<"R", "e", "m", "o", "v", "e", "d">>, strftime(1), strftime(1))
       ELSE IF c = 19 THEN Row(<<>>, <<>>, <<>>, <<>>)
       ELSE IF c = 31
       THEN Row(U_TT, <<"A", "c", "t", "i", "v", "e">>, <<>>, strftime(1))
       ELSE Row(U_TT, <<>>, <<>>, <<>>)

\* a worksheet with m rows for each shard below the header
LongSheet(m) ==
    [r \in 1..(1 + m * TotalShards) |->
        IF r = 1 THEN HeaderRow ELSE LongRow((r - 2) \div TotalShards)]

\* a long worksheet that was run on day 1; one call of run_sheet is left
InitLong ==
    /\ page = NoPage /\ probe = NoProbe /\ result = R("none", {}, "none")
    /\ sheet \in {LongSheet(m) : m \in LongShardRows}
    /\ today = 1
    /\ skipDays \in {0, 1}
    /\ pc = [w \in Workers |-> "idle"]
    /\ values = [w \in Workers |-> <<>>]
    /\ idx = [w \in Workers |-> 0]
    /\ updates = [w \in Workers |-> <<>>]
    /\ runDay = [w \in Workers |-> 0]
    /\ selected = [w \in Workers |-> {}]
    /\ calls = [w \in Workers |-> {}]
    /\ written = [w \in Workers |-> {}]
    /\ runs = MaxRuns - 1
    /\ log = [w \in Workers |-> NoLog]

SpecLong == InitLong /\ [][Next]_vars

(***************************************************************************)
(* Properties of check_one (checked under SpecCheck)                       *)
(***************************************************************************)

Platform == host_platform(page.url)
Checked == result.verdict /= "none"
\* the navigation gave a page to look at
Observed == Checked /\ (page.nav = "ok" \/ page.retry = "ok")

\* the removal phrase list of the platform of the page
PhraseInBody ==
    LET body == page_text(page)
    IN CASE Platform = "instagram" -> contains_any(body, INST_REMOVAL_PHRASES)
         [] Platform = "youtube" -> contains_any(body, YT_REMOVAL)
         [] Platform = "tiktok" -> contains_any(body, TT_REMOVAL)
         [] Platform = "facebook" -> contains_any(body, FB_REMOVAL)
         [] Platform = "threads" -> Contains(body, THREADS_UNAVAILABLE_BADGE)
         [] OTHER -> FALSE

\* the query of the URL has a field error=invalid_post
HasInvalidPostParam(u) ==
    LET fields == Split(urlparse(u).query, "&")
    IN \E k \in 1..Len(fields) : fields[k] = <<"error", "=", "invalid_post">>

\* the path of the URL is /watch or /watch/ and its query has no field v
WatchPathWithoutV(u) ==
    LET p == urlparse(Lower(u))
        fields == Split(p.query, "&")
    IN /\ p.path \in {<<"/", "watch">>, <<"/", "watch", "/">>}
       /\ \A k \in 1..Len(fields) : Before(fields[k], {"="}) /= <<"v">>

UrlImpliesMissingId(u) ==
    _fb_watch_missing_v(Lower(u)) \/ _fb_reel_missing_id(Lower(u))

\* a signal extractor is true on the secondary observation
SecondarySignal ==
    LET pr == fb_probe(probe)
    IN /\ probe.nav = "ok"
       /\ \/ contains_any(pr.body, FB_REMOVAL)
          \/ Contains(pr.canonical, <<"/", "watch">>)
               /\ ~Contains(pr.canonical, <<"?", "v", "=">>)
          \/ _fb_reel_missing_id(pr.canonical)
          \/ _fb_watch_missing_v(pr.final_url)

AllSignalsFalse ==
    /\ ~PhraseInBody
    /\ ~UrlImpliesMissingId(page.finalUrl)
    /\ ~_canonical_says_no_media(page)
    /\ ~HasInvalidPostParam(page.finalUrl)
    /\ ~SecondarySignal

\* C1: when every signal extractor is false on the primary and on the
\* secondary observation, the verdict of check_one is not "removed".
C1_NoSignalNoRemoved ==
    (Checked /\ AllSignalsFalse) => result.verdict /= "removed"

\* a login-walled Facebook page without any signal, probed a second time
C1_Witness ==
    /\ Checked /\ AllSignalsFalse
    /\ Platform = "facebook" /\ page.nav = "ok" /\ probe.nav = "ok"
    /\ result.verdict = "active"

\* C2: when the navigation gives no page (page.goto raises, for Instagram
\* also on the second attempt), the verdict is "unknown", no signal
\* extractor is evaluated and the secondary probe is not run.
C2_NoPageUnknown ==
    (Checked /\ ~Observed) =>
        /\ result.verdict = "unknown"
        /\ result.evaluated = {}
        /\ result.engine = "none"
        /\ probe = NoProbe

\* Instagram: the first goto timed out and the second one raised
C2_Witness ==
    /\ Checked /\ Platform = "instagram"
    /\ page.nav = "timeout" /\ page.retry = "error"
    /\ result.verdict = "unknown"

\* the page has an og:video tag with non-empty content
HasOgVideoTag == page.og.found /\ Strip(page.og.attr) /= <<>>

FbPhraseAndOg ==
    /\ Observed /\ Platform = "facebook"
    /\ HasOgVideoTag
    /\ contains_any(page_text(page), FB_REMOVAL)

C4_InvalidPostRemoved ==
    (Observed /\ Platform = "threads" /\ HasInvalidPostParam(page.finalUrl))
        => result.verdict = "removed"

\* C5: Facebook: a final URL whose path is /watch with no v parameter gives
\* "removed" whatever else the page shows, and fb_probe is not called.
C5_WatchWithoutVRemoved ==
    (Observed /\ Platform = "facebook" /\ WatchPathWithoutV(page.finalUrl)) =>
        /\ result.verdict = "removed"
        /\ result.engine = "none"
        /\ probe = NoProbe

\* /watch with a video tag, a login wall and no removal phrase
C5_Witness ==
    /\ Observed /\ Platform = "facebook" /\ WatchPathWithoutV(page.finalUrl)
    /\ fb_og_video(page)
    /\ ~contains_any(page_text(page), FB_REMOVAL)
    /\ looks_like_login(page_text(page), Lower(page.finalUrl))
    /\ result.verdict = "removed"

\* the page with no DOM query raising and no JSON-LD script failing to parse
WithoutFailures(pg) ==
    [pg EXCEPT !.fails = {},
               !.jsonld = SelectSeq(@, LAMBDA sc : sc.parses)]

\* C10: a failing extractor never turns a verdict into "removed": the
\* verdict is "removed" only if it also is for the same page without the
\* failure.
C10_FailureNeverRemoves ==
    (Checked /\ result.verdict = "removed")
        => check_one(WithoutFailures(page), probe).verdict = "removed"

(***************************************************************************)
(* Properties of run_sheet (checked under Spec)                            *)
(***************************************************************************)

RemovedCell == <<"R", "e", "m", "o", "v", "e", "d">>
UnknownCell == <<"U", "n", "k", "n", "o", "w", "n">>

\* the status cell reads "removed" once trimmed and lower-cased
SaysRemoved(cell) == Lower(Strip(cell)) = <<"r", "e", "m", "o", "v", "e", "d">>

\* indices of the rows worker w has an update for, pending or sent
Touched(w) == calls[w] \cup UpdateRows(updates[w])

C6_NeverChecked ==
    \A w \in Workers : \A i \in Touched(w) : ~SaysRemoved(values[w][i + 1].status)

C6_Frozen ==
    \A r \in 1..NumRows : SaysRemoved(sheet[r].status) => sheet'[r] = sheet[r]

\* C6: a row whose status reads "removed" (trimmed, lower-cased) is never
\* passed to check_one and gets no update, and a row of the sheet that
\* reads "removed" is never changed again by any run.
C6_RemovedRowsAreFinal == []C6_NeverChecked /\ [][C6_Frozen]_vars

\* a row that a run wrote as Removed is passed over by a later run
C6_Witness ==
    \E w \in Workers : \E i \in selected[w] \ calls[w] :
        /\ values[w][i + 1].status = RemovedCell
        /\ sheet[i + 1].status = RemovedCell
        /\ sheet[i + 1].removal /= <<>>
        /\ normalize_url(values[w][i + 1].url) = U_YT
        /\ idx[w] > i

DataIndices == (START_ROW - 1)..(NumRows - 1)
LoopDone(w) == pc[w] = "loop" /\ idx[w] = Len(values[w])

\* C7: every index selected by a worker is congruent to its shard index,
\* the selections and the writes of two workers are disjoint, and once the
\* loops are over each worker selected exactly its residue class, so that
\* the selections together are all data rows.
C7_ShardsPartitionRows ==
    /\ \A w \in Workers : \A i \in selected[w] : i % TotalShards = w
    /\ \A w1, w2 \in Workers :
         w1 /= w2 => /\ selected[w1] \cap selected[w2] = {}
                     /\ Touched(w1) \cap Touched(w2) = {}
                     /\ written[w1] \cap written[w2] = {}
    /\ \A w \in Workers :
         LoopDone(w) => selected[w] = {i \in DataIndices : i % TotalShards = w}
    /\ (\A w \in Workers : LoopDone(w))
         => UNION {selected[w] : w \in Workers} = DataIndices

\* all workers are through the sheet at once, two of them with updates
C7_Witness ==
    /\ \A w \in Workers : LoopDone(w) /\ selected[w] /= {}
    /\ \E w1, w2 \in Workers : w1 /= w2 /\ updates[w1] /= <<>> /\ updates[w2] /= <<>>
    /\ UNION {selected[w] : w \in Workers} = DataIndices

\* the updates a worker holds, not yet sent to the sheet
Pending == UNION {{updates[w][k] : k \in 1..Len(updates[w])} : w \in Workers}

\* per-item budgets the scheduler could be run with, in milliseconds
ItemBudgets == {10000, 30000}

\* C8: when check_one took longer than the per-item budget, the result
\* recorded for the row is "unknown".
C8_OverBudgetUnknown ==
    \A u \in Pending : \A b \in ItemBudgets :
        u.elapsed > b => u.values[1] = UnknownCell

\* C9: the update made for a classified row carries the verdict, a removal
\* date that is the run's date when the verdict is "removed" and empty
\* otherwise, and the run's date as checked date.
C9_DatesFollowVerdict ==
    \A u \in Pending :
        /\ Lower(u.values[1]) = Chars(u.verdict)
        /\ (u.values[2] /= <<>>) <=> (u.verdict = "removed")
        /\ u.values[2] \in {<<>>, strftime(u.day)}
        /\ u.values[3] = strftime(u.day)
        /\ u.day \in 1..MaxDay

\* a removal found on the second day, and an active verdict of the same day
\* that carries no removal date
C9_Witness ==
    /\ \E u \in Pending :
          /\ u.verdict = "removed"
          /\ u.values = <<RemovedCell, strftime(2), strftime(2)>>
    /\ \E u \in Pending :
          /\ u.verdict = "active"
          /\ u.values = <<<<"A", "c", "t", "i", "v", "e">>, <<>>, strftime(2)>>

(***************************************************************************)
(* Properties of the update buffer (checked under SpecLong)                *)
(***************************************************************************)

\* the sequences of a sequence, one after the other
RECURSIVE Concat(_)
Concat(ss) == IF ss = <<>> THEN <<>> ELSE Head(ss) \o Concat(Tail(ss))

\* row numbers worker w has sent to the sheet in its run, in order, and
\* after them the row numbers it still holds in its buffer
SentRows(w) == Concat(log[w].batches)
HeldRows(w) == BatchRows(updates[w])

\* C11: after each iteration of the loop the buffer holds fewer than
\* FLUSH_EVERY updates; each ws.batch_update call gets between 1 and
\* FLUSH_EVERY updates; the rows sent and then the rows held are, in order,
\* the rows passed to check_one, no row passed twice, so that when
\* run_sheet has returned, with an empty buffer, each of them was sent
\* exactly once; no row that was skipped or is of another shard is sent
\* or held.
C11_BufferedPersistence ==
    \A w \in Workers :
        /\ Len(updates[w]) < FLUSH_EVERY
        /\ \A b \in 1..Len(log[w].batches) :
              Len(log[w].batches[b]) \in 1..FLUSH_EVERY
        /\ SentRows(w) \o HeldRows(w)
              = [k \in 1..Len(log[w].called) |-> log[w].called[k] + 1]
        /\ \A j, k \in 1..Len(log[w].called) :
              j < k => log[w].called[j] < log[w].called[k]
        /\ log[w].returned => updates[w] = <<>>
        /\ \A k \in 1..Len(SentRows(w) \o HeldRows(w)) :
              LET r == (SentRows(w) \o HeldRows(w))[k]
              IN /\ (r - 1) % TotalShards = w
                 /\ (r - 1) \notin log[w].skipped
                 /\ r >= START_ROW

\* a run that has returned after a full batch sent from the loop and a
\* smaller one sent by the final flush, with rows skipped on the way
C11_Witness ==
    \E w \in Workers :
        /\ log[w].returned
        /\ Len(log[w].batches) = 2
        /\ Len(log[w].batches[1]) = FLUSH_EVERY
        /\ Len(log[w].batches[2]) \in 1..(FLUSH_EVERY - 1)
        /\ Len(log[w].called) = FLUSH_EVERY + Len(log[w].batches[2])
        /\ log[w].skipped /= {}
        /\ sheet[log[w].called[1] + 1].checked = strftime(today)

====
